---- MODULE Spec2Model ----
(***************************************************************************)
(* SecureCollatzCipher (src/collatz_crypto.py): the keyed Collatz stream,  *)
(* its balanced-bitstring and quantization-table generators and its        *)
(* statistical tests, as a state machine.                                   *)
(*                                                                         *)
(* Scaling.  The code works on a 512-bit register, 256-bit seeds and        *)
(* digests and a 128-bit dynamic key.  The model keeps the same arithmetic  *)
(* on narrower words: RegBits, SeedBits, DigestBits and KBits are the       *)
(* widths, with SeedBits <= RegBits and KBits <= DigestBits as in the code. *)
(* HMAC-SHA256 is replaced by a small keyed mixing function of the same     *)
(* shape (deterministic in key and message, DigestBits wide); the draws of  *)
(* secrets.token_bytes are nondeterministic over the whole seed range.      *)
(* Floats are modelled as exact rationals.                                  *)
(***************************************************************************)
EXTENDS Integers, Sequences, FiniteSets, TLC

\* ------------------------------------------------------------ bounds
RegBits == 8        \* width of the state register (the code's 512)
SeedBits == 4       \* width of a secrets.token_bytes(32) draw (the code's 256)
DigestBits == 4     \* width of an HMAC digest (the code's 256)
KBits == 2          \* width of the dynamic key h[:16] (the code's 128)
NumKeys == 8        \* number of master keys tried; key 0 is the all-zero key
MaxLen == 4         \* largest length passed to generate_balanced_bitstring
TableSize == 3      \* slots of the quantization table (the code's 64)
MaxBits == 6        \* longest bitstring given to the statistical tests
MaxSteps == 3       \* step() calls per instance in the two-instance runs
MaxSeen == 6        \* samples kept in a balanced call's parity history

\* ------------------------------------------------------------ program constants
TableMod == 254     \* (self.state % 254) + 1

RECURSIVE Pow2(_)
Pow2(n) == IF n <= 0 THEN 1 ELSE 2 * Pow2(n - 1)

RegMod == Pow2(RegBits)
Seeds == 0 .. (Pow2(SeedBits) - 1)
Digests == 0 .. (Pow2(DigestBits) - 1)
Keys == 0 .. (NumKeys - 1)
Lengths == (-2) .. MaxLen

\* ------------------------------------------------------------ state
VARIABLES
    master_key,   \* self.master_key
    A,            \* self.A
    B,            \* self.B
    state,        \* self.state
    pc,           \* the running method: "idle", "balanced" or "table"
    bal,          \* locals of generate_balanced_bitstring
    tab,          \* locals of generate_quantization_table
    ret,          \* outcome of the last call that ended
    last,         \* the last step() call: entry state, value before anti-collapse
    twin,         \* a second instance built with the same key and injected state
    trace,        \* step() results of the two instances, with the reseed marks
    fin,          \* argument of the pure function under test
    fout,         \* its result
    th,           \* two callers of step() on one shared instance: position and locals
    lock,         \* holder of the callers' lock, 0 when free
    guarded,      \* whether the callers take the lock around step()
    start         \* the shared state before either caller began

vars == <<master_key, A, B, state, pc, bal, tab, ret, last, twin, trace, fin, fout,
          th, lock, guarded, start>>

cipher == <<master_key, A, B, state>>
pure == <<fin, fout>>
twins == <<twin, trace>>
threads == <<th, lock, guarded, start>>

\* ------------------------------------------------------------ integers and bytes
\* Python's ^ on non-negative integers.
RECURSIVE Xor(_, _)
Xor(a, b) ==
    IF a = 0 THEN b
    ELSE IF b = 0 THEN a
    ELSE 2 * Xor(a \div 2, b \div 2) + (((a % 2) + (b % 2)) % 2)

\* n.to_bytes((n.bit_length() + 7) // 8, 'big'): the minimal big-endian bytes
\* of n; 0 gives the empty byte string.
RECURSIVE ToBytes(_)
ToBytes(n) == IF n = 0 THEN <<>> ELSE Append(ToBytes(n \div 256), n % 256)

\* b'multiplier_A' and b'increment_B'
LabelA == <<109, 117, 108, 116, 105, 112, 108, 105, 101, 114, 95, 65>>
LabelB == <<105, 110, 99, 114, 101, 109, 101, 110, 116, 95, 66>>

\* hmac.new(key, msg, hashlib.sha256).digest() read as a big-endian integer:
\* a keyed mixing function of the message bytes, DigestBits wide.
RECURSIVE HmacFold(_, _, _)
HmacFold(acc, key, msg) ==
    IF msg = <<>> THEN acc
    ELSE HmacFold((acc * 5 + Head(msg) * (2 * key + 3) + key + 1) % Pow2(DigestBits),
                  key, Tail(msg))

Hmac(key, msg) == HmacFold((7 * key + 2) % Pow2(DigestBits), key, msg)

\* ------------------------------------------------------------ key derivation
\* Lines 25-31 of _derive_large_odd, on the digest value.
LargeOdd_NoFloor(digest) ==
    IF digest % 2 = 0 THEN digest + 1 ELSE digest

LargeOdd(digest) ==
    LET val1 == IF digest % 2 = 0 THEN digest + 1 ELSE digest
    IN  IF val1 <= 1 THEN 3 ELSE val1

derive_large_odd(key, salt) == LargeOdd(Hmac(key, salt))

\* _derive_dynamic_k: the first half of the digest of n's bytes.
derive_dynamic_k_Clock(key, n) ==
    ((Hmac(key, ToBytes(n)) + Len(trace[1]) + Len(trace[2])) % Pow2(DigestBits))
        \div Pow2(DigestBits - KBits)

derive_dynamic_k(key, n) ==
    Hmac(key, ToBytes(n)) \div Pow2(DigestBits - KBits)

\* ------------------------------------------------------------ step()
\* Lines 48-55: the state before the anti-collapse check.
StepCore_NoMask(key, a, b, s) ==
    IF s % 2 = 0 THEN s \div 2
    ELSE Xor(a * s + b, derive_dynamic_k(key, s))

StepCore_NoXor(key, a, b, s) ==
    IF s % 2 = 0 THEN s \div 2
    ELSE (a * s + b) % RegMod

StepCore_NoHalving(key, a, b, s) ==
    IF s % 2 = 0 THEN s
    ELSE Xor(a * s + b, derive_dynamic_k(key, s)) % RegMod

StepCore(key, a, b, s) ==
    IF s % 2 = 0 THEN s \div 2
    ELSE Xor(a * s + b, derive_dynamic_k(key, s)) % RegMod

\* Line 58.
Collapsed(v) == v <= 1

\* Lines 48-61: the values step() may store and return from state s.  On
\* collapse the state is int.from_bytes(secrets.token_bytes(32), 'big'), any
\* value of the seed range; otherwise it is the value computed.
StepOutcomes(key, a, b, s) ==
    LET pre == StepCore(key, a, b, s)
    IN  IF Collapsed(pre) THEN Seeds ELSE {pre}

\* ------------------------------------------------------------ generators
\* Line 67: the only check generate_balanced_bitstring makes on its argument.
\* Python's % takes the sign of the divisor, as TLA+'s does: -3 % 2 = 1.
LengthRejected_EqOne(length) == length > 0 /\ length % 2 = 1

LengthRejected(length) == length % 2 # 0

\* Line 84: the bit of a state, odd -> 1 and even -> 0.
BitOf_Reversed(s) == IF s % 2 = 0 THEN 1 ELSE 0

BitOf(s) == IF s % 2 # 0 THEN 1 ELSE 0

\* Lines 87-104: whether a sampled bit is appended (its count is below its
\* target) or rejected.
Accepts_NoCap(val, b) == TRUE

Accepts_OnesShort(val, b) ==
    IF val = 0 THEN b.zeros < b.target_zeros ELSE b.ones < b.target_ones - 1

Accepts(val, b) ==
    IF val = 0 THEN b.zeros < b.target_zeros ELSE b.ones < b.target_ones

\* Line 122: a state mapped to a table entry.
TableValue_NoShift(s) == s % TableMod

TableValue(s) == (s % TableMod) + 1

\* ------------------------------------------------------------ calls
NoBal == [length |-> 0, target_zeros |-> 0, target_ones |-> 0,
          zeros |-> 0, ones |-> 0, bits |-> <<>>,
          entry |-> 0, seen |-> <<>>, more |-> FALSE]
NoTab == [table |-> <<>>, entry |-> 0, states |-> <<>>]
NoRet == [kind |-> "none", op |-> "none"]
NoLast == [op |-> "none"]
Callers == 1 .. 2
NoThreads ==
    /\ th = [t \in Callers |-> [pc |-> "call", v |-> 0, k |-> 0, out |-> 0]]
    /\ lock = 0
    /\ guarded = FALSE
    /\ start = 0

\* One call of step() from state s that stored out, as the record kept in
\* last; evens counts the calls in a row, this one included, that started from
\* an even state and did not reseed.
StepRecord(s, out) ==
    LET pre == StepCore(master_key, A, B, s)
    IN  [op |-> "step", entry |-> s, pre |-> pre,
         reseed |-> Collapsed(pre), out |-> out,
         evens |-> IF s % 2 = 0 /\ ~Collapsed(pre)
                   THEN (IF last.op = "step" THEN last.evens ELSE 0) + 1
                   ELSE 0]

\* __init__: the key, the derived A and B, and a seeded state.
Init ==
    /\ master_key \in Keys
    /\ A = derive_large_odd(master_key, LabelA)
    /\ B = derive_large_odd(master_key, LabelB)
    /\ state \in Seeds
    /\ pc = "idle"
    /\ bal = NoBal
    /\ tab = NoTab
    /\ ret = NoRet
    /\ last = NoLast
    /\ twin = 0
    /\ trace = <<<<>>, <<>>>>
    /\ fin = <<>>
    /\ fout = NoRet
    /\ NoThreads

\* A caller's step() (verify_distribution.py line 15).
Step_ReseedRekeys ==
    /\ pc = "idle"
    /\ \E out \in StepOutcomes(master_key, A, B, state) :
         /\ last' = StepRecord(state, out)
         /\ state' = last'.out
         /\ ret' = [kind |-> "value", op |-> "step", val |-> last'.out]
         /\ IF last'.reseed
            THEN /\ master_key' \in Keys
                 /\ A' = derive_large_odd(master_key', LabelA)
                 /\ B' = derive_large_odd(master_key', LabelB)
            ELSE UNCHANGED <<master_key, A, B>>
    /\ UNCHANGED <<pc, bal, tab, twins, pure, threads>>

Step ==
    /\ pc = "idle"
    /\ \E out \in StepOutcomes(master_key, A, B, state) :
         /\ last' = StepRecord(state, out)
         /\ state' = last'.out
         /\ ret' = [kind |-> "value", op |-> "step", val |-> last'.out]
    /\ UNCHANGED <<master_key, A, B, pc, bal, tab, twins, pure, threads>>

\* generate_balanced_bitstring, lines 67-74: the parity check and the locals.
BalancedCall(length) ==
    /\ pc = "idle"
    /\ IF LengthRejected(length)
       THEN /\ ret' = [kind |-> "ValueError", op |-> "balanced", arg |-> length]
            /\ UNCHANGED <<pc, bal>>
       ELSE /\ pc' = "balanced"
            /\ bal' = [length |-> length,
                       target_zeros |-> length \div 2,
                       target_ones |-> length \div 2,
                       zeros |-> 0, ones |-> 0, bits |-> <<>>,
                       entry |-> state, seen |-> <<>>, more |-> FALSE]
            /\ ret' = [kind |-> "running", op |-> "balanced", arg |-> length]
    /\ last' = NoLast
    /\ UNCHANGED <<cipher, tab, twins, pure, threads>>

\* Lines 76-104: one pass of the while loop.  seen is the history of the
\* parities line 78 read ('1' for odd), the first MaxSeen of them; more tells
\* that later ones were left out.
BalancedIter ==
    /\ pc = "balanced"
    /\ Len(bal.bits) < bal.length
    /\ LET val == BitOf(state)
           take == Accepts(val, bal)
       IN  /\ bal' = [bal EXCEPT
                        !.bits = IF take THEN Append(@, IF val = 0 THEN "0" ELSE "1") ELSE @,
                        !.zeros = IF take /\ val = 0 THEN @ + 1 ELSE @,
                        !.ones = IF take /\ val = 1 THEN @ + 1 ELSE @,
                        !.seen = IF Len(@) < MaxSeen
                                 THEN Append(@, IF state % 2 = 1 THEN "1" ELSE "0")
                                 ELSE @,
                        !.more = (Len(bal.seen) >= MaxSeen)]
           /\ \E out \in StepOutcomes(master_key, A, B, state) :
                /\ last' = StepRecord(state, out)
                /\ state' = last'.out
    /\ UNCHANGED <<master_key, A, B, pc, tab, ret, twins, pure, threads>>

\* Line 106.
BalancedReturn ==
    /\ pc = "balanced"
    /\ ~(Len(bal.bits) < bal.length)
    /\ ret' = [kind |-> "value", op |-> "balanced", arg |-> bal.length, val |-> bal.bits]
    /\ pc' = "idle"
    /\ bal' = NoBal
    /\ UNCHANGED <<cipher, tab, last, twins, pure, threads>>

\* generate_quantization_table, line 117.
TableCall ==
    /\ pc = "idle"
    /\ pc' = "table"
    /\ tab' = [table |-> <<>>, entry |-> state, states |-> <<>>]
    /\ ret' = [kind |-> "running", op |-> "table"]
    /\ last' = NoLast
    /\ UNCHANGED <<cipher, bal, twins, pure, threads>>

\* Lines 118-123: one pass of the for loop.  states is the history of the
\* values step() returned to the loop, entry the state the call began with.
TableIter_ValueBeforeStep ==
    /\ pc = "table"
    /\ Len(tab.table) < TableSize
    /\ \E out \in StepOutcomes(master_key, A, B, state) :
         /\ last' = StepRecord(state, out)
         /\ state' = last'.out
         /\ tab' = [tab EXCEPT !.table = Append(@, TableValue(state)),
                               !.states = Append(@, last'.out)]
    /\ UNCHANGED <<master_key, A, B, pc, bal, ret, twins, pure, threads>>

TableIter ==
    /\ pc = "table"
    /\ Len(tab.table) < TableSize
    /\ \E out \in StepOutcomes(master_key, A, B, state) :
         /\ last' = StepRecord(state, out)
         /\ state' = last'.out
         /\ tab' = [tab EXCEPT !.table = Append(@, TableValue(last'.out)),
                               !.states = Append(@, last'.out)]
    /\ UNCHANGED <<master_key, A, B, pc, bal, ret, twins, pure, threads>>

\* Line 124.
TableReturn ==
    /\ pc = "table"
    /\ ~(Len(tab.table) < TableSize)
    /\ ret' = [kind |-> "value", op |-> "table", val |-> tab.table,
               entry |-> tab.entry, states |-> tab.states]
    /\ pc' = "idle"
    /\ tab' = NoTab
    /\ UNCHANGED <<cipher, bal, last, twins, pure, threads>>

\* ------------------------------------------------------------ two instances
\* Two ciphers built from the same master key (hence the same A and B) whose
\* state is then set to the same injected value; each is stepped on its own.
InitTwin ==
    /\ master_key \in Keys
    /\ A = derive_large_odd(master_key, LabelA)
    /\ B = derive_large_odd(master_key, LabelB)
    /\ state \in 0 .. (RegMod - 1)
    /\ twin = state
    /\ trace = <<<<>>, <<>>>>
    /\ pc = "idle"
    /\ bal = NoBal
    /\ tab = NoTab
    /\ ret = NoRet
    /\ last = NoLast
    /\ fin = <<>>
    /\ fout = NoRet
    /\ NoThreads

\* Whether an instance's recorded run is still before its first reseed; an
\* instance is stepped up to and including that reseed.
BeforeReseed(t) == \A i \in 1 .. Len(t) : ~t[i].reseed

\* step() on the first instance.
StepFirst ==
    /\ Len(trace[1]) < MaxSteps
    /\ BeforeReseed(trace[1])
    /\ \E out \in StepOutcomes(master_key, A, B, state) :
         LET rec == StepRecord(state, out)
         IN  /\ state' = rec.out
             /\ trace' = [trace EXCEPT ![1] = Append(@, [val |-> rec.out, reseed |-> rec.reseed])]
    /\ UNCHANGED <<master_key, A, B, pc, bal, tab, ret, last, twin, pure, threads>>

\* step() on the second instance.
StepSecond ==
    /\ Len(trace[2]) < MaxSteps
    /\ BeforeReseed(trace[2])
    /\ \E out \in StepOutcomes(master_key, A, B, twin) :
         LET rec == StepRecord(twin, out)
         IN  /\ twin' = rec.out
             /\ trace' = [trace EXCEPT ![2] = Append(@, [val |-> rec.out, reseed |-> rec.reseed])]
    /\ UNCHANGED <<cipher, pc, bal, tab, ret, last, pure, threads>>

NextTwin == StepFirst \/ StepSecond

SpecTwin == InitTwin /\ [][NextTwin]_vars

\* ------------------------------------------------------------ two callers
\* Two threads each call step() once on the same instance.  Every read and
\* every write of self.state is a step of its own, in the order lines 48-61
\* make them; v and k are the thread's own temporaries.  When guarded, a
\* caller takes the lock before it calls step() and frees it once step() has
\* returned.
InitThreads ==
    /\ master_key \in Keys
    /\ A = derive_large_odd(master_key, LabelA)
    /\ B = derive_large_odd(master_key, LabelB)
    /\ state \in Seeds
    /\ start = state
    /\ guarded \in BOOLEAN
    /\ lock = 0
    /\ th = [t \in Callers |-> [pc |-> "call", v |-> 0, k |-> 0, out |-> 0]]
    /\ pc = "idle"
    /\ bal = NoBal
    /\ tab = NoTab
    /\ ret = NoRet
    /\ last = NoLast
    /\ twin = 0
    /\ trace = <<<<>>, <<>>>>
    /\ fin = <<>>
    /\ fout = NoRet

Rest == <<master_key, A, B, pc, bal, tab, ret, last, twins, pure, guarded, start>>

Goto(t, label) == th' = [th EXCEPT ![t].pc = label]

\* The caller calls step(), with the lock taken first if the callers use one.
Enter(t) ==
    /\ th[t].pc = "call"
    /\ IF guarded THEN lock = 0 /\ lock' = t ELSE UNCHANGED lock
    /\ Goto(t, "l48")
    /\ UNCHANGED <<state, Rest>>

\* Line 48: if self.state % 2 == 0.
TestParity(t) ==
    /\ th[t].pc = "l48"
    /\ Goto(t, IF state % 2 = 0 THEN "l49" ELSE "l51")
    /\ UNCHANGED <<state, lock, Rest>>

\* Line 49, self.state //= 2: the load ...
HalveRead(t) ==
    /\ th[t].pc = "l49"
    /\ th' = [th EXCEPT ![t].pc = "l49w", ![t].v = state]
    /\ UNCHANGED <<state, lock, Rest>>

\* ... and the store.
HalveWrite(t) ==
    /\ th[t].pc = "l49w"
    /\ state' = th[t].v \div 2
    /\ Goto(t, "l58")
    /\ UNCHANGED <<lock, Rest>>

\* Line 51: k = self._derive_dynamic_k(self.state).
DeriveK(t) ==
    /\ th[t].pc = "l51"
    /\ th' = [th EXCEPT ![t].pc = "l55", ![t].k = derive_dynamic_k(master_key, state)]
    /\ UNCHANGED <<state, lock, Rest>>

\* Line 55, self.state = ((self.A * self.state + self.B) ^ k) % (2**512):
\* the load ...
AffineRead(t) ==
    /\ th[t].pc = "l55"
    /\ th' = [th EXCEPT ![t].pc = "l55w", ![t].v = state]
    /\ UNCHANGED <<state, lock, Rest>>

\* ... and the store.
AffineWrite(t) ==
    /\ th[t].pc = "l55w"
    /\ state' = Xor(A * th[t].v + B, th[t].k) % RegMod
    /\ Goto(t, "l58")
    /\ UNCHANGED <<lock, Rest>>

\* Line 58: if self.state <= 1.
CollapseTest(t) ==
    /\ th[t].pc = "l58"
    /\ Goto(t, IF Collapsed(state) THEN "l59" ELSE "l61")
    /\ UNCHANGED <<state, lock, Rest>>

\* Line 59: the reseed.
Reseed(t) ==
    /\ th[t].pc = "l59"
    /\ state' \in Seeds
    /\ Goto(t, "l61")
    /\ UNCHANGED <<lock, Rest>>

\* Line 61: return self.state.
Return(t) ==
    /\ th[t].pc = "l61"
    /\ th' = [th EXCEPT ![t].pc = "returned", ![t].out = state]
    /\ UNCHANGED <<state, lock, Rest>>

\* Back in the caller: the lock, if any, is freed.
Leave(t) ==
    /\ th[t].pc = "returned"
    /\ lock' = IF guarded THEN 0 ELSE lock
    /\ Goto(t, "done")
    /\ UNCHANGED <<state, Rest>>

NextThreads ==
    \E t \in Callers :
        \/ Enter(t)
        \/ TestParity(t)
        \/ HalveRead(t)
        \/ HalveWrite(t)
        \/ DeriveK(t)
        \/ AffineRead(t)
        \/ AffineWrite(t)
        \/ CollapseTest(t)
        \/ Reseed(t)
        \/ Return(t)
        \/ Leave(t)

SpecThreads == InitThreads /\ [][NextThreads]_vars

\* ------------------------------------------------------------ floats
\* A Python float as an exact fraction num/den with den > 0, in lowest terms.
RECURSIVE Gcd(_, _)
Gcd(a, b) == IF b = 0 THEN a ELSE Gcd(b, a % b)

Abs(x) == IF x < 0 THEN -x ELSE x

Rat(n, d) ==
    LET sn == IF d < 0 THEN -n ELSE n
        sd == Abs(d)
        g == Gcd(Abs(sn), sd)
    IN  [num |-> sn \div g, den |-> sd \div g]

RatInt(n) == [num |-> n, den |-> 1]
RatAdd(x, y) == Rat(x.num * y.den + y.num * x.den, x.den * y.den)
RatSub(x, y) == Rat(x.num * y.den - y.num * x.den, x.den * y.den)
RatMul(x, y) == Rat(x.num * y.num, x.den * y.den)
\* x / y for y # 0; Python raises ZeroDivisionError when y = 0.
RatDiv(x, y) == Rat(x.num * y.den, x.den * y.num)
RatZero == RatInt(0)

\* ------------------------------------------------------------ statistical tests
\* bitstring.count(c)
Count(bitstring, c) == Cardinality({i \in 1 .. Len(bitstring) : bitstring[i] = c})

\* [bitstring[i:i+2] for i in range(0, n, 2)]: the last block of an odd-length
\* string has one character.
Blocks(bitstring) ==
    LET n == Len(bitstring)
    IN  [j \in 1 .. ((n + 1) \div 2) |->
            SubSeq(bitstring, 2 * j - 1, IF 2 * j <= n THEN 2 * j ELSE n)]

\* sum(((count - expected) ** 2) / expected for count in ...)
RECURSIVE ChiSum(_, _)
ChiSum(countseq, expected) ==
    IF countseq = <<>> THEN RatZero
    ELSE LET d == RatSub(RatInt(Head(countseq)), expected)
         IN  RatAdd(RatDiv(RatMul(d, d), expected), ChiSum(Tail(countseq), expected))

\* chi_square_test, lines 132-154.  Every term of either sum divides by the
\* expected count, so a zero expected count raises ZeroDivisionError.
chi_square_test(bitstring) ==
    LET n == Len(bitstring)
        c0 == Count(bitstring, "0")
        c1 == Count(bitstring, "1")
        expected == Rat(n, 2)
        blocks == Blocks(bitstring)
        bc(b) == Cardinality({j \in DOMAIN blocks : blocks[j] = b})
        expected_block == Rat(Len(blocks), 4)
    IN  IF expected.num = 0 \/ expected_block.num = 0
        THEN [kind |-> "ZeroDivisionError"]
        ELSE [kind |-> "value",
              frequency_chisq |-> ChiSum(<<c0, c1>>, expected),
              block_chisq |-> ChiSum(<<bc(<<"0", "0">>), bc(<<"0", "1">>),
                                       bc(<<"1", "0">>), bc(<<"1", "1">>)>>, expected_block),
              counts |-> <<c0, c1>>,
              block_counts |-> <<bc(<<"0", "0">>), bc(<<"0", "1">>),
                                 bc(<<"1", "0">>), bc(<<"1", "1">>)>>]

\* runs_test, lines 161-164: one run to start with, one more at every
\* position whose bit differs from the one before it.
RECURSIVE RunsFrom(_, _, _)
RunsFrom(bitstring, i, runs) ==
    IF i > Len(bitstring) THEN runs
    ELSE RunsFrom(bitstring, i + 1,
                  IF bitstring[i] # bitstring[i - 1] THEN runs + 1 ELSE runs)

CountRuns_FromZero(bitstring) == RunsFrom(bitstring, 2, 0)

CountRuns(bitstring) == RunsFrom(bitstring, 2, 1)

\* Line 169: the degenerate case.
Monotone_Both(n0, n1) == n0 = 0 /\ n1 = 0

Monotone(n0, n1) == n0 = 0 \/ n1 = 0

\* Line 176: numerator and denominator of the variance.
VarianceNum(n0, n1) == (2 * n0 * n1) * (2 * n0 * n1 - n0 - n1)
VarianceDen(n0, n1) == ((n0 + n1) * (n0 + n1)) * (n0 + n1 - 1)

\* A z-score diff / sqrt(var) with var > 0, kept as the pair; zero is ZZero.
ZZero == [diff |-> RatZero, var |-> RatInt(1)]
ZVal(diff, var) == IF diff.num = 0 THEN ZZero ELSE [diff |-> diff, var |-> var]

\* Line 180: (runs - mean_runs) / math.sqrt(variance) if variance > 0 else 0.
ZScore_NoGuard(runs, mean_runs, variance) ==
    IF variance.num = 0
    THEN [kind |-> "ZeroDivisionError"]
    ELSE [kind |-> "value", z |-> ZVal(RatSub(RatInt(runs), mean_runs), variance)]

ZScore(runs, mean_runs, variance) ==
    IF variance.num > 0
    THEN [kind |-> "value", z |-> ZVal(RatSub(RatInt(runs), mean_runs), variance)]
    ELSE [kind |-> "value", z |-> ZZero]

\* runs_test, lines 161-186.  The two divisions raise ZeroDivisionError on a
\* zero denominator.
runs_test(bitstring) ==
    LET runs == CountRuns(bitstring)
        n0 == Count(bitstring, "0")
        n1 == Count(bitstring, "1")
    IN  IF Monotone(n0, n1)
        THEN [kind |-> "value", runs |-> runs, z_score |-> ZZero,
              status |-> "Fail (Monotone)"]
        ELSE IF n0 + n1 = 0 \/ VarianceDen(n0, n1) = 0
        THEN [kind |-> "ZeroDivisionError"]
        ELSE LET mean_runs == RatAdd(Rat(2 * n0 * n1, n0 + n1), RatInt(1))
                 variance == Rat(VarianceNum(n0, n1), VarianceDen(n0, n1))
                 zs == ZScore(runs, mean_runs, variance)
             IN  IF zs.kind # "value"
                 THEN [kind |-> zs.kind]
                 ELSE [kind |-> "value", runs |-> runs,
                       expected_runs |-> mean_runs, z_score |-> zs.z]

\* ------------------------------------------------------------ the program
\* The bit string a caller holds after generate_balanced_bitstring returned
\* it, as demo() does (lines 196, 210, 215); the statistical tests receive it.
Holding ==
    \/ ret.op = "balanced" /\ ret.kind = "value"
    \/ ret.op \in {"chi_square_test", "runs_test"}

Held == IF ret.op = "balanced" THEN ret.val ELSE ret.bits

\* demo() line 210: chi_square_test on the held string.
ChiSquareTest ==
    /\ pc = "idle"
    /\ Holding
    /\ LET r == chi_square_test(Held)
       IN  ret' = [kind |-> r.kind, op |-> "chi_square_test", bits |-> Held, chi |-> r]
    /\ UNCHANGED <<cipher, pc, bal, tab, last, twins, pure, threads>>

\* demo() line 215: runs_test on the held string.
RunsTest ==
    /\ pc = "idle"
    /\ Holding
    /\ LET r == runs_test(Held)
       IN  ret' = [kind |-> r.kind, op |-> "runs_test", bits |-> Held, runs |-> r]
    /\ UNCHANGED <<cipher, pc, bal, tab, last, twins, pure, threads>>

Next ==
    \/ Step
    \/ \E length \in Lengths : BalancedCall(length)
    \/ BalancedIter
    \/ BalancedReturn
    \/ TableCall
    \/ TableIter
    \/ TableReturn
    \/ ChiSquareTest
    \/ RunsTest

Spec == Init /\ [][Next]_vars

\* The same program where a call that has started keeps running: the while
\* loop of generate_balanced_bitstring is sequential code, its next pass or
\* its return is taken whenever it is possible.
running == <<cipher, pc, bal, last>>

SpecLive ==
    /\ Init
    /\ [][Next]_vars
    /\ WF_running(BalancedIter)
    /\ WF_running(BalancedReturn)

\* The stream alone: step() called again and again on one instance, as
\* verify_distribution.py does; the caller's loop keeps calling.
SpecStream == Init /\ [][Step]_vars /\ WF_running(Step)

\* ------------------------------------------------------------ pure functions
RECURSIVE BitStrings(_)
BitStrings(n) ==
    IF n = 0 THEN {<<>>}
    ELSE LET shorter == BitStrings(n - 1)
         IN  shorter \cup {Append(b, c) : b \in {x \in shorter : Len(x) = n - 1}, c \in {"0", "1"}}

PureInputs ==
    [fn : {"large_odd"}, digest : Digests]
    \cup [fn : {"derive_large_odd"}, key : Keys, salt : {LabelA, LabelB}]
    \cup [fn : {"chi_square_test"}, bitstring : BitStrings(MaxBits)]
    \cup [fn : {"runs_test"}, bitstring : BitStrings(MaxBits)]

InitPure ==
    /\ master_key \in Keys
    /\ A = derive_large_odd(master_key, LabelA)
    /\ B = derive_large_odd(master_key, LabelB)
    /\ state = 0
    /\ twin = 0
    /\ trace = <<<<>>, <<>>>>
    /\ pc = "idle"
    /\ bal = NoBal
    /\ tab = NoTab
    /\ ret = NoRet
    /\ last = NoLast
    /\ fin \in PureInputs
    /\ fout = NoRet
    /\ NoThreads

\* Lines 25-31 applied to a digest value.
LargeOddCall ==
    /\ fin.fn = "large_odd"
    /\ fout = NoRet
    /\ fout' = [kind |-> "value", val |-> LargeOdd(fin.digest)]
    /\ UNCHANGED <<cipher, pc, bal, tab, ret, last, twins, fin, threads>>

\* _derive_large_odd(salt) under a master key.
DeriveLargeOddCall ==
    /\ fin.fn = "derive_large_odd"
    /\ fout = NoRet
    /\ fout' = [kind |-> "value", val |-> derive_large_odd(fin.key, fin.salt)]
    /\ UNCHANGED <<cipher, pc, bal, tab, ret, last, twins, fin, threads>>

ChiSquareCall ==
    /\ fin.fn = "chi_square_test"
    /\ fout = NoRet
    /\ fout' = chi_square_test(fin.bitstring)
    /\ UNCHANGED <<cipher, pc, bal, tab, ret, last, twins, fin, threads>>

RunsTestCall ==
    /\ fin.fn = "runs_test"
    /\ fout = NoRet
    /\ fout' = runs_test(fin.bitstring)
    /\ UNCHANGED <<cipher, pc, bal, tab, ret, last, twins, fin, threads>>

NextPure == LargeOddCall \/ DeriveLargeOddCall \/ ChiSquareCall \/ RunsTestCall

SpecPure == InitPure /\ [][NextPure]_vars

\* ------------------------------------------------------------ properties
IsBitString(x) == \A i \in 1 .. Len(x) : x[i] \in {"0", "1"}

\* C1: whenever generate_balanced_bitstring(L) returns for a positive even L,
\* the result has exactly L characters, all '0' or '1', L/2 of each.
C1_BalancedResult ==
    (ret.kind = "value" /\ ret.op = "balanced" /\ ret.arg > 0)
        => /\ ret.arg % 2 = 0
           /\ Len(ret.val) = ret.arg
           /\ IsBitString(ret.val)
           /\ Count(ret.val, "0") = ret.arg \div 2
           /\ Count(ret.val, "1") = ret.arg \div 2

C1_Witness ==
    ret.kind = "value" /\ ret.op = "balanced" /\ ret.arg >= 4 /\ Len(ret.val) >= 4

\* C2: after any call to step() the state is strictly greater than 1, also
\* when the anti-collapse reseed fired.
C2_StateAboveOne ==
    last.op = "step" => state > 1

\* C3: after any call to step() the state is strictly less than 2^RegBits.
C3_StateBelowModulus ==
    last.op = "step" => (state = last.out /\ state < RegMod)

\* The odd branch ran on a product that needed the mask.
C3_Witness ==
    /\ last.op = "step"
    /\ last.entry % 2 = 1
    /\ A * last.entry + B >= RegMod
    /\ state = last.out

\* C4: step() on an even s gives s // 2 and on an odd s gives
\* ((A*s+B) XOR k) mod 2^RegBits before anti-collapse, k being the top KBits
\* of the digest of s under the master key; the returned value is the stored
\* state.
C4_StepFunction ==
    /\ last.op = "step" =>
         LET s == last.entry
             k == Hmac(master_key, ToBytes(s)) \div Pow2(DigestBits - KBits)
         IN  /\ k \in 0 .. (Pow2(KBits) - 1)
             /\ (s % 2 = 0) => last.pre = s \div 2
             /\ (s % 2 = 1) => last.pre = Xor(A * s + B, k) % RegMod
             /\ last.out = state
    /\ (ret.kind = "value" /\ ret.op = "step") => ret.val = state

C4_Witness ==
    /\ ret.kind = "value" /\ ret.op = "step" /\ last.op = "step"
    /\ last.entry % 2 = 1
    /\ ~last.reseed
    /\ derive_dynamic_k(master_key, last.entry) # 0
    /\ Xor(A * last.entry + B, derive_dynamic_k(master_key, last.entry)) >= RegMod

\* C5: a call with an odd length ends with ValueError, starts no loop, makes
\* no step() call and leaves the state, A, B and the master key as they were.
C5_OddLengthRaises ==
    [][(pc = "idle" /\ ret'.op = "balanced" /\ ret'.arg % 2 # 0 /\ ret' # ret)
         => /\ ret'.kind = "ValueError"
            /\ pc' = "idle"
            /\ bal' = bal
            /\ last'.op # "step"
            /\ cipher' = cipher]_vars

C5_Witness ==
    ret.kind = "ValueError" /\ ret.op = "balanced" /\ ret.arg = 3 /\ pc = "idle"

\* C6: a call with a length that is zero or negative ends with ValueError and
\* returns no string.
C6_NonPositiveLengthRaises ==
    (ret.op = "balanced" /\ ret.arg <= 0 /\ ret.kind # "running")
        => ret.kind = "ValueError"

\* C7: two instances with the same master key and the same injected state
\* return the same step() results up to the first reseed in either.
NoReseedUpTo(j) ==
    \A i \in 1 .. j : ~trace[1][i].reseed /\ ~trace[2][i].reseed

C8_TableRange ==
    (ret.kind = "value" /\ ret.op = "table")
        => /\ Len(ret.val) = TableSize
           /\ \A i \in 1 .. Len(ret.val) : ret.val[i] \in 1 .. 255

\* The last slot came from a state that the modulus wrapped.
C8_Witness ==
    /\ ret.kind = "value" /\ ret.op = "table"
    /\ state >= TableMod
    /\ ret.val[Len(ret.val)] = state - TableMod + 1

\* C9: the derived multiplier and increment are odd and greater than 1, for
\* every key and label and for every digest value.
C9_LargeOdd ==
    (fout.kind = "value" /\ fin.fn \in {"large_odd", "derive_large_odd"})
        => (fout.val % 2 = 1 /\ fout.val > 1)

C9_Witness ==
    /\ fin.fn = "large_odd" /\ fin.digest = 0
    /\ fout.kind = "value" /\ fout.val = 3

\* C10: chi_square_test on any bit string with as many '0' as '1' returns
\* frequency_chisq = 0.0.
C10_BalancedChiSquareZero ==
    (/\ fin.fn = "chi_square_test"
     /\ fout # NoRet
     /\ Count(fin.bitstring, "0") = Count(fin.bitstring, "1"))
        => (fout.kind = "value" /\ fout.frequency_chisq = RatZero)

\* The same on the non-empty strings, where the expected count is not zero.
C10_NonEmptyBalancedChiSquareZero ==
    (/\ fin.fn = "chi_square_test"
     /\ fout # NoRet
     /\ Len(fin.bitstring) > 0
     /\ Count(fin.bitstring, "0") = Count(fin.bitstring, "1"))
        => (fout.kind = "value" /\ fout.frequency_chisq = RatZero)

\* C11: runs_test on a string that lacks one of the two bit values returns
\* the monotone result: z_score 0.0, the monotone status, no expected_runs,
\* and no error from a division.
C11_MonotoneResult ==
    (/\ fin.fn = "runs_test"
     /\ fout # NoRet
     /\ (Count(fin.bitstring, "0") = 0 \/ Count(fin.bitstring, "1") = 0))
        => /\ fout.kind = "value"
           /\ fout.z_score = ZZero
           /\ DOMAIN fout = {"kind", "runs", "z_score", "status"}
           /\ fout.status = "Fail (Monotone)"

\* An all-zero string of length 1, where the variance denominator is zero.
C11_Witness ==
    /\ fin.fn = "runs_test" /\ fin.bitstring = <<"0">>
    /\ fout.kind = "value" /\ fout.status = "Fail (Monotone)"

\* The positions of a string that start a maximal run of equal bits.
RunStarts(x) == {i \in 1 .. Len(x) : i = 1 \/ x[i] # x[i - 1]}

Alternating(x) == \A i \in 1 .. (Len(x) - 1) : x[i] # x[i + 1]

ZerosThenOnes(x) ==
    \E k \in 1 .. (Len(x) - 1) :
        \A i \in 1 .. Len(x) : x[i] = (IF i <= k THEN "0" ELSE "1")

\* C12: the runs value is 1 plus the number of adjacent positions with
\* different bits, which on a non-empty string is the number of maximal runs:
\* n on an alternating string of length n, 2 on zeros followed by ones, 1 on
\* the empty string and on a single bit.
C12_RunsCount ==
    (fin.fn = "runs_test" /\ fout # NoRet)
        => LET x == fin.bitstring
           IN  /\ fout.kind = "value"
               /\ fout.runs = 1 + Cardinality({i \in 1 .. (Len(x) - 1) : x[i] # x[i + 1]})
               /\ Len(x) >= 1 => fout.runs = Cardinality(RunStarts(x))
               /\ (Len(x) >= 1 /\ Alternating(x)) => fout.runs = Len(x)
               /\ ZerosThenOnes(x) => fout.runs = 2
               /\ Len(x) <= 1 => fout.runs = 1

C12_Witness ==
    /\ fin.fn = "runs_test" /\ fout.kind = "value"
    /\ fin.bitstring = <<"0", "1", "0", "1", "0", "1">>
    /\ fout.runs = 6

\* C19: runs_test raises no error on any bit string; when both bit values
\* occur the two denominators are not zero and the variance numerator is not
\* negative, and a variance of 0 (one '0' and one '1') gives z_score 0.
C19_RunsTestTotal ==
    (fin.fn = "runs_test" /\ fout # NoRet)
        => LET n0 == Count(fin.bitstring, "0")
               n1 == Count(fin.bitstring, "1")
           IN  /\ fout.kind = "value"
               /\ (n0 >= 1 /\ n1 >= 1)
                    => /\ n0 + n1 # 0
                       /\ VarianceDen(n0, n1) # 0
                       /\ VarianceNum(n0, n1) >= 0
                       /\ "expected_runs" \in DOMAIN fout
                       /\ (VarianceNum(n0, n1) = 0) <=> (n0 = 1 /\ n1 = 1)
                       /\ (VarianceNum(n0, n1) = 0) => fout.z_score = ZZero

C19_Witness ==
    /\ fin.fn = "runs_test" /\ fin.bitstring = <<"0", "1">>
    /\ fout.kind = "value" /\ fout.z_score = ZZero /\ fout.runs = 2

\* The bit string the claim describes for a history of sampled parity bits:
\* a bit is kept unless its value already occurs half times in what was kept
\* before it.
RECURSIVE KeptBits(_, _, _, _)
KeptBits(seen, i, half, kept) ==
    IF i > Len(seen) THEN kept
    ELSE KeptBits(seen, i + 1, half,
                  IF Count(kept, seen[i]) < half THEN Append(kept, seen[i]) ELSE kept)

\* C13: all through generate_balanced_bitstring(L), the last pass included
\* (the bits line 106 then returns), the bits so far are the sampled parity
\* bits in order, less those whose value had reached L/2, and the two
\* counters count the kept bits.  Before the first pass the register is the
\* state at entry; after a pass the newest sample is the parity ('1' for odd)
\* of the state that pass started from, and the register is the outcome of
\* the one step() made from it.
C13_ParitySubsequence ==
    (pc = "balanced" /\ ~bal.more)
        => /\ bal.bits = KeptBits(bal.seen, 1, bal.length \div 2, <<>>)
           /\ bal.zeros = Count(bal.bits, "0")
           /\ bal.ones = Count(bal.bits, "1")
           /\ bal.seen = <<>> => (state = bal.entry /\ last = NoLast)
           /\ bal.seen # <<>>
                => /\ last.op = "step"
                   /\ bal.seen[Len(bal.seen)] = (IF last.entry % 2 = 1 THEN "1" ELSE "0")
                   /\ Len(bal.seen) = 1 => last.entry = bal.entry
                   /\ state = last.out
                   /\ state \in StepOutcomes(master_key, A, B, last.entry)

\* The loop of a call of length 4 is over after at least one sample was
\* dropped, the first bit being the parity of the entry state.
C13_Witness ==
    /\ pc = "balanced" /\ ~bal.more
    /\ bal.length = 4 /\ Len(bal.bits) = 4
    /\ Len(bal.seen) > Len(bal.bits)
    /\ bal.bits[1] = (IF bal.entry % 2 = 1 THEN "1" ELSE "0")

\* C14: generate_balanced_bitstring(L) for a positive even L returns exactly
\* when the emitted length is L (a pass is made only below L, the return only
\* at L), and in every run where odd states and even states both keep coming
\* the call returns.
C14_Terminates ==
    /\ [][(pc = "balanced" /\ bal.length > 0)
            => /\ pc' = "balanced" => Len(bal.bits) < bal.length
               /\ pc' = "idle" => (Len(bal.bits) = bal.length /\ ret'.val = bal.bits)]_vars
    /\ ([]<>(state % 2 = 1) /\ []<>(state % 2 = 0))
         => ((pc = "balanced" /\ bal.length > 0) ~> (pc = "idle"))

\* Without that assumption: the zeros are at their cap, the string is not
\* full, the state is even and one more step() can leave the register as it
\* is, so the pass can repeat forever.
C14_Witness ==
    /\ pc = "balanced" /\ bal.length > 0
    /\ Len(bal.bits) < bal.length
    /\ bal.zeros = bal.target_zeros
    /\ state % 2 = 0
    /\ last.op = "step" /\ last.entry = state
    /\ state \in StepOutcomes(master_key, A, B, state)

C16_Frame ==
    [][/\ master_key' = master_key
       /\ A' = A
       /\ B' = B
       /\ ret'.op \in {"chi_square_test", "runs_test"}
            => (state' = state /\ pc' = pc /\ bal' = bal /\ tab' = tab /\ last' = last)]_vars

\* After a call that reseeded, and a statistical test on its result, the key
\* material is still what __init__ derived.
C16_Witness ==
    /\ ret.op = "runs_test"
    /\ last.op = "step" /\ last.reseed
    /\ A = derive_large_odd(master_key, LabelA)
    /\ B = derive_large_odd(master_key, LabelB)

RECURSIVE EvenStretch(_, _)
EvenStretch(s, n) ==
    LET pre == StepCore(master_key, A, B, s)
    IN  IF n > RegBits \/ s % 2 = 1 \/ Collapsed(pre) THEN n
        ELSE EvenStretch(pre, n + 1)

Serial(first, second) ==
    /\ th[first].out \in StepOutcomes(master_key, A, B, start)
    /\ th[second].out \in StepOutcomes(master_key, A, B, th[first].out)
    /\ state = th[second].out

BothDone == \A t \in Callers : th[t].pc = "done"

\* The register values two step() calls in a row can leave from the start.
SerialFinals ==
    UNION {StepOutcomes(master_key, A, B, o) : o \in StepOutcomes(master_key, A, B, start)}

====
